---- MODULE Spec2Model ----
(***************************************************************************)
(* calibrate_padding (gfsa/datasets/padding_calibration.py) as a state     *)
(* machine: the sampling loop, the per-dimension fitting loop, the         *)
(* constraint solver, the minimum step and the quantile reporter.          *)
(*                                                                         *)
(* Numbers.  The program computes in floating point.  The model computes   *)
(* in decimal fixed point with three fractional digits: the integer v      *)
(* stands for v / Scale, every operation rounds its exact result to the    *)
(* nearest representable value (ties upward), as a floating-point          *)
(* operation does, and the special values NaN, +inf and -inf are kept,     *)
(* because the program produces them (a negative discriminant, a division  *)
(* by zero) and reacts to them (comparisons with NaN are false, int() of   *)
(* NaN or of an infinity raises).                                          *)
(*                                                                         *)
(* Libraries.  jax, optax and the caller's example_builder are not part of *)
(* the repository.  A loss evaluation yields some loss out of Losses, an   *)
(* optimizer step some update out of Updates, and a builder call some      *)
(* example out of the examples of its target size, or raises.              *)
(***************************************************************************)
EXTENDS Integers, Sequences, FiniteSets, TLC

(* ------------------------------------------------------------------ *)
(* Fixed-point floating values                                         *)
(* ------------------------------------------------------------------ *)

\* Number of representable steps per unit: three decimal digits.
Scale == 10 * 10 * 10

Num(v) == [k |-> "num", v |-> v]
NaN == [k |-> "nan", v |-> 0]
PInf == [k |-> "pinf", v |-> 0]
NInf == [k |-> "ninf", v |-> 0]

IsNum(x) == x.k = "num"

\* An integer (a target size, a desired bound) as a floating value.
OfInt(n) == Num(n * Scale)

Abs(n) == IF n < 0 THEN -n ELSE n

\* n / d rounded to the nearest integer, for d > 0.
RDiv(n, d) == (2 * n + d) \div (2 * d)

\* Largest r with r * r <= n, for 0 <= n < 2^30, by bisection on [lo, hi).
RECURSIVE ISqrtIn(_, _, _)
ISqrtIn(n, lo, hi) ==
  IF hi - lo <= 1 THEN lo
  ELSE LET mid == (lo + hi) \div 2
       IN IF mid * mid <= n THEN ISqrtIn(n, mid, hi) ELSE ISqrtIn(n, lo, mid)

ISqrt(n) == ISqrtIn(n, 0, 32768)

\* Arithmetic of the floating values.  NaN operands give NaN.  An infinity
\* is only ever the result of the last operation of a computation (the
\* division of line 179, the logarithm of line 196), so the operations below
\* are never applied to one.
FAdd(x, y) == IF IsNum(x) /\ IsNum(y) THEN Num(x.v + y.v) ELSE NaN
FSub(x, y) == IF IsNum(x) /\ IsNum(y) THEN Num(x.v - y.v) ELSE NaN
FNeg(x) == IF IsNum(x) THEN Num(-x.v) ELSE NaN
FMul(x, y) == IF IsNum(x) /\ IsNum(y) THEN Num(RDiv(x.v * y.v, Scale)) ELSE NaN
FSquare(x) == FMul(x, x)

\* x / y: a zero divisor gives NaN for 0/0 and a signed infinity otherwise,
\* without raising (numpy and jax scalars).
FDiv(x, y) ==
  IF ~(IsNum(x) /\ IsNum(y)) THEN NaN
  ELSE IF y.v = 0 THEN (IF x.v = 0 THEN NaN ELSE IF x.v > 0 THEN PInf ELSE NInf)
  ELSE IF y.v > 0 THEN Num(RDiv(x.v * Scale, y.v))
  ELSE Num(RDiv((-x.v) * Scale, -y.v))

\* np.sqrt: NaN for a negative argument.
FSqrt(x) ==
  IF ~IsNum(x) \/ x.v < 0 THEN NaN
  ELSE LET n == x.v * Scale
           r == ISqrt(n)
       IN Num(IF n - r * r > r THEN r + 1 ELSE r)

\* x < y as the floating-point comparison: false when either side is NaN.
FLess(x, y) ==
  CASE x.k = "nan" \/ y.k = "nan" -> FALSE
    [] x.k = "ninf" -> y.k # "ninf"
    [] x.k = "pinf" -> FALSE
    [] y.k = "pinf" -> TRUE
    [] y.k = "ninf" -> FALSE
    [] OTHER -> x.v < y.v

\* scipy.special.erfinv at the arguments 2p - 1 of the probabilities the
\* model draws (p in tenths), to three decimals.
ErfInv(x) ==
  IF ~IsNum(x) THEN NaN
  ELSE CASE x.v = -800 -> Num(-906)
         [] x.v = -600 -> Num(-595)
         [] x.v = -400 -> Num(-371)
         [] x.v = -200 -> Num(-179)
         [] x.v = 0 -> Num(0)
         [] x.v = 200 -> Num(179)
         [] x.v = 400 -> Num(371)
         [] x.v = 600 -> Num(595)
         [] x.v = 800 -> Num(906)

\* A success probability given in tenths, as a floating value.
Prob(tenths) == Num(tenths * (Scale \div 10))

(* ------------------------------------------------------------------ *)
(* The size model, the constraint solver and the quantile reporter     *)
(* ------------------------------------------------------------------ *)

\* The variance floor 1e-3 of lines 129, 178 and 192.
Eps == Num(Scale \div 1000)

\* A parameter vector is <<base_mu, base_std, prop_mu, prop_std>>, each a
\* fixed-point integer (line 141, line 174).
BaseMu(ps) == Num(ps[1])
BaseStd(ps) == Num(ps[2])
PropMu(ps) == Num(ps[3])
PropStd(ps) == Num(ps[4])

\* erfinv(2 * p - 1), lines 175 and 193.
ErfArg(p) == ErfInv(FSub(FMul(OfInt(2), p), OfInt(1)))

\* Lines 174-179: the smaller root of the quadratic a n^2 + b n + c = 0.
\* target is the desired bound (an integer), p the success probability.
Constraint(ps, target, p) ==
  LET erfval == FSquare(ErfArg(p))
      a == FSquare(PropMu(ps))
      b == FSub(FMul(FMul(OfInt(2), PropMu(ps)), FSub(BaseMu(ps), OfInt(target))),
                FMul(FMul(OfInt(2), FSquare(PropStd(ps))), erfval))
      c == FSub(FSquare(FSub(OfInt(target), BaseMu(ps))),
                FMul(FMul(OfInt(2), FAdd(FSquare(BaseStd(ps)), Eps)), erfval))
      disc == FSub(FSquare(b), FMul(FMul(OfInt(4), a), c))
  IN FDiv(FSub(FNeg(b), FSqrt(disc)), FMul(OfInt(2), a))

\* Python's min over a non-empty list: the first element, replaced by each
\* later element that compares less than the running minimum (line 183).
RECURSIVE PyMinFrom(_, _, _)
PyMinFrom(cs, j, m) ==
  IF j > Len(cs) THEN m
  ELSE PyMinFrom(cs, j + 1, IF FLess(cs[j], m) THEN cs[j] ELSE m)

PyMin(cs) == PyMinFrom(cs, 2, cs[1])

\* int(x), line 183 and lines 196, 198: truncation toward zero; NaN raises
\* ValueError and an infinity raises OverflowError.
IntRaises(x) == ~IsNum(x)
IntError(x) == IF x.k = "nan" THEN "ValueError" ELSE "OverflowError"
IntOf(x) == IF x.v >= 0 THEN x.v \div Scale ELSE -((-x.v) \div Scale)

\* The forward p-quantile of the size model at target size n (a floating
\* value), lines 190-193.
QuantileAt(ps, n, p) ==
  LET mu == FAdd(BaseMu(ps), FMul(n, PropMu(ps)))
      var == FAdd(FAdd(FSquare(BaseStd(ps)), FMul(n, FSquare(PropStd(ps)))), Eps)
  IN FAdd(mu, FMul(FSqrt(FMul(OfInt(2), var)), ErfArg(p)))

\* np.ceil of a number, as an integer.
CeilOf(x) == -((-x.v) \div Scale)

\* np.ceil(np.log2(x)) for a number x > 0: the least k with 2^k >= x.
RECURSIVE CeilLog2Up(_, _)
CeilLog2Up(v, k) == IF (2 ^ k) * Scale >= v THEN k ELSE CeilLog2Up(v, k + 1)
RECURSIVE CeilLog2Down(_, _)
CeilLog2Down(v, k) ==
  IF k >= 10 \/ v * (2 ^ (k + 1)) > Scale THEN -k ELSE CeilLog2Down(v, k + 1)
CeilLog2(v) == IF v > Scale THEN CeilLog2Up(v, 1) ELSE CeilLog2Down(v, 0)

\* Line 196: int(np.exp2(np.ceil(np.log2(quantile - 0.5)))).  log2 of a
\* negative number is NaN, and int() of it raises; log2(0) is -inf, whose
\* exp2 is 0; a power of two below 1 truncates to 0.
\* The same without the offset of 0.5.
Log2ArgNoOffset(q) == q
Log2Arg(q) == FSub(q, Num(Scale \div 2))
RoundRaises(q) == LET x == Log2Arg(q) IN ~IsNum(x) \/ x.v < 0
RoundUpToPowerOfTwo(q) ==
  LET x == Log2Arg(q)
  IN IF x.v = 0 THEN 0
     ELSE LET k == CeilLog2(x.v) IN IF k < 0 THEN 0 ELSE 2 ^ k

\* Lines 194-198: the returned bound of one dimension, and whether computing
\* it raises.
RoundedRaises(q, round) == IF round THEN RoundRaises(q) ELSE IntRaises(q)
RoundedQuantile(q, round) == IF round THEN RoundUpToPowerOfTwo(q) ELSE CeilOf(q)

(* ------------------------------------------------------------------ *)
(* Inputs and their bounds                                             *)
(* ------------------------------------------------------------------ *)

\* The five size dimensions, in the insertion order of the dicts `data`
\* (lines 101-107) and `desired_sizes` (lines 157-168).
SizeKeys ==
  << "graph_nodes", "graph_in_tagged_nodes", "initial_transitions",
     "in_tagged_transitions", "edges" >>
KeySet == {SizeKeys[j] : j \in 1..Len(SizeKeys)}

\* Bounds of the model: the largest `samples` and optimization_max_steps a
\* call is given, and the range of target sizes the sampler draws from.
MaxSamples == 2
MaxSteps == 3
min_object_size == 1
max_object_size == 3

\* log_likelihood_epsilon = 1e-2 (line 38).
log_likelihood_epsilon == Scale \div 100

\* The losses a loss evaluation may yield (fixed-point integers): 0 and 10
\* are exactly log_likelihood_epsilon apart, every other pair is closer.
Losses == {0, 4, 10}

\* The updates an optimizer step may yield (line 150): none, or one that
\* raises the offset and the slope of the mean and lowers prop_std.
Updates == { <<0, 0, 0, 0>>, <<Scale, 0, Scale, -Scale>> }

\* The examples example_builder may return for a target size: the five
\* measurements grow with the target size, each in its own way.
Example(t, noise) ==
  [ num_nodes |-> t + noise,
    num_input_tagged_nodes |-> t,
    initial_to_in_tagged |-> 2 * t + noise,
    in_tagged_to_in_tagged |-> 3 * t,
    edges |-> 2 * t + 2 * noise + 1 ]
ExamplesOf(t) == {Example(t, noise) : noise \in {0, 1}}

\* The errors example_builder may raise.
BuilderErrors == {"BuilderError", "KeyboardInterrupt"}

\* The measurement of an example that line 113-120 stores under a key.
Measure(example, key) ==
  CASE key = "graph_nodes" -> example.num_nodes
    [] key = "graph_in_tagged_nodes" -> example.num_input_tagged_nodes
    [] key = "initial_transitions" -> example.initial_to_in_tagged
    [] key = "in_tagged_transitions" -> example.in_tagged_to_in_tagged
    [] key = "edges" -> example.edges

\* A cell of an np.empty array that has not been written (line 100).
Unwritten == -1

\* jnp.array([0., 1., 0., 1.]), line 141.
InitialParams == <<0, Scale, 0, Scale>>

(* ------------------------------------------------------------------ *)
(* State                                                               *)
(* ------------------------------------------------------------------ *)

\* A local that may be unbound (or None) is a sequence of at most one value.
VARIABLES
  pc,                      \* position in calibrate_padding
  error,                   \* the exception the call raised, if any
  result,                  \* the returned pair, if any
  samples, optimization_max_steps, success_probability,
  desired_sizes, round_to_powers_of_two,
  i,                       \* index of the next sample (line 108)
  calls,                   \* every call of example_builder, in order, with
                           \* its argument and what it returned or raised
  object_sizes, data,
  size_key,                \* index into SizeKeys of the current dimension
  params, last_loss, loss,
  step,                    \* index of the next fitting iteration (line 144)
  loss_hist,               \* the losses evaluated for the current dimension
  applied,                 \* optimizer updates applied for it
  eval_params,             \* the parameters of its last loss evaluation
  model_params,
  ast_constraints, ast_target_count, quantiles

vars ==
  << pc, error, result, samples, optimization_max_steps, success_probability,
     desired_sizes, round_to_powers_of_two, i, calls, object_sizes, data,
     size_key, params, last_loss, loss, step, loss_hist, applied, eval_params,
     model_params, ast_constraints, ast_target_count, quantiles >>

inputVars ==
  << samples, optimization_max_steps, success_probability, desired_sizes,
     round_to_powers_of_two >>
sampleVars == << i, calls, object_sizes, data >>
fitVars ==
  << params, last_loss, loss, step, loss_hist, applied, eval_params, model_params >>
solveVars == << ast_constraints, ast_target_count, quantiles >>

(* ------------------------------------------------------------------ *)
(* Helpers of the actions                                              *)
(* ------------------------------------------------------------------ *)

\* np.random.randint(min_object_size, max_object_size), line 109: the upper
\* end is excluded.
\* The same with the upper end included.
TargetSizesInclusive == min_object_size..max_object_size
TargetSizes == min_object_size..(max_object_size - 1)

\* graph_bundle.PaddingConfig, as lines 203-210 build it and lines 157-168
\* read it.
PaddingConfig(sizes) ==
  [ static_max_metadata |->
      [ num_nodes |-> sizes["graph_nodes"],
        num_input_tagged_nodes |-> sizes["graph_in_tagged_nodes"] ],
    max_initial_transitions |-> sizes["initial_transitions"],
    max_in_tagged_transitions |-> sizes["in_tagged_transitions"],
    max_edges |-> sizes["edges"] ]

\* Lines 157-168: the desired padding configuration as a dict by size key.
DesiredOf(config) ==
  [ key \in KeySet |->
      CASE key = "graph_nodes" -> config.static_max_metadata.num_nodes
        [] key = "graph_in_tagged_nodes" ->
             config.static_max_metadata.num_input_tagged_nodes
        [] key = "initial_transitions" -> config.max_initial_transitions
        [] key = "in_tagged_transitions" -> config.max_in_tagged_transitions
        [] key = "edges" -> config.max_edges ]

\* Lines 146-147: last_loss is not None and |last_loss - loss| < epsilon.
\* The same with <= in place of <.
ConvergedInclusive(last, l) ==
  last # <<>> /\ Abs(last[1] - l) <= log_likelihood_epsilon
Converged(last, l) == last # <<>> /\ Abs(last[1] - l) < log_likelihood_epsilon

\* optax.apply_updates(params, updates), line 151.
ApplyUpdates(ps, u) == [j \in 1..4 |-> ps[j] + u[j]]

\* Where the fitting loop of line 144 goes with `done` iterations behind it.
FitHead(done) == IF done < optimization_max_steps THEN "fit" ELSE "store"

(* ------------------------------------------------------------------ *)
(* Initial state: the call of calibrate_padding                        *)
(* ------------------------------------------------------------------ *)

\* The desired bounds and probabilities the whole-call specification draws.
CallDesired == {1}
CallProbabilities == {9}

InitLocals ==
  /\ error = <<>>
  /\ result = <<>>
  /\ ast_constraints = <<>>
  /\ ast_target_count = <<>>
  /\ quantiles = <<>>

\* The call of calibrate_padding with `samples` out of sampleCounts and
\* optimization_max_steps out of stepCounts.
InitCall(sampleCounts, stepCounts) ==
  /\ pc = "sample"
  /\ samples \in sampleCounts
  /\ optimization_max_steps \in stepCounts
  /\ success_probability \in {Prob(t) : t \in CallProbabilities}
  /\ desired_sizes \in {PaddingConfig([key \in KeySet |-> d]) : d \in CallDesired}
  /\ round_to_powers_of_two \in BOOLEAN
  /\ i = 0
  /\ calls = <<>>
  /\ object_sizes = [j \in 1..samples |-> Unwritten]
  /\ data = [key \in KeySet |-> [j \in 1..samples |-> Unwritten]]
  /\ size_key = 1
  /\ params = <<>>
  /\ last_loss = <<>>
  /\ loss = <<>>
  /\ step = 0
  /\ loss_hist = <<>>
  /\ applied = 0
  /\ eval_params = <<>>
  /\ model_params = <<>>
  /\ InitLocals

\* Calls that draw up to MaxSamples samples and fit in at most two steps.
Init == InitCall(0..MaxSamples, {0, 1, 2})

\* Calls that draw at most one sample and fit in up to MaxSteps steps.
InitFit == InitCall({0, 1}, 0..MaxSteps)

(* ------------------------------------------------------------------ *)
(* Sampler, lines 98-120                                               *)
(* ------------------------------------------------------------------ *)

\* One iteration of the loop of line 108 in which example_builder returns.
SampleCall(t, example) ==
  /\ pc = "sample"
  /\ i < samples
  /\ calls' = Append(calls, [arg |-> t, ret |-> <<example>>, raised |-> <<>>])
  /\ object_sizes' = [object_sizes EXCEPT ![i + 1] = t]
  /\ data' = [key \in KeySet |-> [data[key] EXCEPT ![i + 1] = Measure(example, key)]]
  /\ i' = i + 1
  /\ UNCHANGED << pc, error, result, inputVars, size_key, fitVars, solveVars >>

\* An iteration in which the error of example_builder is caught and the
\* sample skipped.
BuilderRaisesSwallowed(t, e) ==
  /\ pc = "sample"
  /\ i < samples
  /\ calls' = Append(calls, [arg |-> t, ret |-> <<>>, raised |-> <<e>>])
  /\ i' = i + 1
  /\ UNCHANGED << pc, error, result, inputVars, object_sizes, data, size_key,
                  fitVars, solveVars >>

\* One iteration in which example_builder raises: nothing catches it.
BuilderRaises(t, e) ==
  /\ pc = "sample"
  /\ i < samples
  /\ calls' = Append(calls, [arg |-> t, ret |-> <<>>, raised |-> <<e>>])
  /\ error' = <<e>>
  /\ pc' = "raised"
  /\ UNCHANGED << result, inputVars, i, object_sizes, data, size_key, fitVars,
                  solveVars >>

\* The loop of line 108 is exhausted; lines 122-143 set up the first fit.
BeginFit ==
  /\ pc = "sample"
  /\ i = samples
  /\ size_key' = 1
  /\ params' = InitialParams
  /\ last_loss' = <<>>
  /\ step' = 0
  /\ loss_hist' = <<>>
  /\ applied' = 0
  /\ eval_params' = <<>>
  /\ pc' = FitHead(0)
  /\ UNCHANGED << error, result, inputVars, sampleVars, loss, model_params,
                  solveVars >>

(* ------------------------------------------------------------------ *)
(* Model fitter, lines 139-153                                         *)
(* ------------------------------------------------------------------ *)

\* An iteration of line 144 whose loss l ends the loop (line 148).
FitBreak(l) ==
  /\ pc = "fit"
  /\ Converged(last_loss, l)
  /\ loss' = <<l>>
  /\ loss_hist' = Append(loss_hist, l)
  /\ eval_params' = params
  /\ pc' = "store"
  /\ UNCHANGED << error, result, inputVars, sampleVars, size_key, params,
                  last_loss, step, applied, model_params, solveVars >>

\* An iteration of line 144 that goes on to the optimizer step u
\* (lines 149-151).
FitUpdate(l, u) ==
  /\ pc = "fit"
  /\ ~Converged(last_loss, l)
  /\ loss' = <<l>>
  /\ loss_hist' = Append(loss_hist, l)
  /\ eval_params' = params
  /\ last_loss' = <<l>>
  /\ params' = ApplyUpdates(params, u)
  /\ applied' = applied + 1
  /\ step' = step + 1
  /\ pc' = FitHead(step + 1)
  /\ UNCHANGED << error, result, inputVars, sampleVars, size_key, model_params,
                  solveVars >>

\* Lines 152-153, then the next dimension (lines 141-143) or the solver.
\* The locals of the finished loop are never read again; they are cleared.
Store ==
  /\ pc = "store"
  /\ loss # <<>>
  /\ model_params' = model_params @@ (SizeKeys[size_key] :> params)
  /\ last_loss' = <<>>
  /\ loss' = <<>>
  /\ step' = 0
  /\ loss_hist' = <<>>
  /\ applied' = 0
  /\ eval_params' = <<>>
  /\ IF size_key < Len(SizeKeys)
       THEN /\ size_key' = size_key + 1
            /\ params' = InitialParams
            /\ pc' = FitHead(0)
       ELSE /\ size_key' = 1
            /\ params' = <<>>
            /\ pc' = "solve"
  /\ UNCHANGED << error, result, inputVars, sampleVars, solveVars >>

\* Line 152 with optimization_max_steps = 0: `loss` was never bound.
StoreRaises ==
  /\ pc = "store"
  /\ loss = <<>>
  /\ error' = <<"UnboundLocalError">>
  /\ pc' = "raised"
  /\ UNCHANGED << result, inputVars, sampleVars, size_key, fitVars, solveVars >>

(* ------------------------------------------------------------------ *)
(* Constraint solver, lines 155-185                                    *)
(* ------------------------------------------------------------------ *)

\* One iteration of the loop of line 171.
Solve ==
  /\ pc = "solve"
  /\ LET key == SizeKeys[size_key]
     IN ast_constraints' =
          Append(ast_constraints,
                 Constraint(model_params[key], DesiredOf(desired_sizes)[key],
                            success_probability))
  /\ IF size_key < Len(SizeKeys)
       THEN size_key' = size_key + 1 /\ pc' = pc
       ELSE size_key' = 1 /\ pc' = "min"
  /\ UNCHANGED << error, result, inputVars, sampleVars, fitVars,
                  ast_target_count, quantiles >>

\* Line 183.
TakeMin ==
  /\ pc = "min"
  /\ ~IntRaises(PyMin(ast_constraints))
  /\ ast_target_count' = <<IntOf(PyMin(ast_constraints))>>
  /\ pc' = "quantile"
  /\ UNCHANGED << error, result, inputVars, sampleVars, size_key, fitVars,
                  ast_constraints, quantiles >>

\* Line 183 when int() raises.
TakeMinRaises ==
  /\ pc = "min"
  /\ IntRaises(PyMin(ast_constraints))
  /\ error' = <<IntError(PyMin(ast_constraints))>>
  /\ pc' = "raised"
  /\ UNCHANGED << result, inputVars, sampleVars, size_key, fitVars, solveVars >>

(* ------------------------------------------------------------------ *)
(* Quantile reporter, lines 187-210                                    *)
(* ------------------------------------------------------------------ *)

\* The quantile of line 193 for the current dimension.
CurrentQuantile ==
  QuantileAt(model_params[SizeKeys[size_key]], OfInt(ast_target_count[1]),
             success_probability)

\* One iteration of the loop of line 189.
Quantile ==
  /\ pc = "quantile"
  /\ ~RoundedRaises(CurrentQuantile, round_to_powers_of_two)
  /\ quantiles' =
       quantiles @@ (SizeKeys[size_key] :>
                       RoundedQuantile(CurrentQuantile, round_to_powers_of_two))
  /\ IF size_key < Len(SizeKeys)
       THEN size_key' = size_key + 1 /\ pc' = pc
       ELSE size_key' = size_key /\ pc' = "return"
  /\ UNCHANGED << error, result, inputVars, sampleVars, fitVars, ast_constraints,
                  ast_target_count >>

\* An iteration of line 189 in which int() raises (lines 196, 198).
QuantileRaises ==
  /\ pc = "quantile"
  /\ RoundedRaises(CurrentQuantile, round_to_powers_of_two)
  /\ error' = <<"ValueError">>
  /\ pc' = "raised"
  /\ UNCHANGED << result, inputVars, sampleVars, size_key, fitVars, solveVars >>

\* Lines 203-210.
Return ==
  /\ pc = "return"
  /\ result' = <<ast_target_count[1], PaddingConfig(quantiles)>>
  /\ pc' = "done"
  /\ UNCHANGED << error, inputVars, sampleVars, size_key, fitVars, solveVars >>

(* ------------------------------------------------------------------ *)
(* Specifications                                                      *)
(* ------------------------------------------------------------------ *)

SolverNext ==
  \/ Solve
  \/ TakeMin
  \/ TakeMinRaises
  \/ Quantile
  \/ QuantileRaises
  \/ Return

Next ==
  \/ \E t \in TargetSizes : \E example \in ExamplesOf(t) : SampleCall(t, example)
  \/ \E t \in TargetSizes : \E e \in BuilderErrors : BuilderRaises(t, e)
  \/ BeginFit
  \/ \E l \in Losses : FitBreak(l)
  \/ \E l \in Losses : \E u \in Updates : FitUpdate(l, u)
  \/ Store
  \/ StoreRaises
  \/ SolverNext

\* A whole call of calibrate_padding.
Spec == Init /\ [][Next]_vars
SpecFit == InitFit /\ [][Next]_vars

(* ------------------------------------------------------------------ *)
(* The solver and the reporter on their own                            *)
(* ------------------------------------------------------------------ *)

\* The largest desired bound of a dimension.
MaxDesired == 4

\* The fitted parameter vectors a dimension may have: slope 1 with constant
\* noise; slope 1 with noise growing with the target size and an offset of
\* 2; and the vector the fit starts from, whose slope is 0.
FittedParams ==
  { <<0, Scale, Scale, 0>>,
    <<2 * Scale, 0, Scale, Scale>>,
    InitialParams }

\* The desired bounds of a dimension and the success probabilities (tenths).
DesiredValues == {MaxDesired - 3, MaxDesired}
Probabilities == {1, 5, 9}

\* The state at line 155, after some sampling and some fit.
InitSolve ==
  /\ pc = "solve"
  /\ samples = 1
  /\ optimization_max_steps = 1
  /\ success_probability \in {Prob(t) : t \in Probabilities}
  /\ desired_sizes \in {PaddingConfig(d) : d \in [KeySet -> DesiredValues]}
  /\ round_to_powers_of_two \in BOOLEAN
  /\ i = 1
  /\ calls = << [arg |-> min_object_size, ret |-> <<Example(min_object_size, 0)>>,
                 raised |-> <<>>] >>
  /\ object_sizes = <<min_object_size>>
  /\ data = [key \in KeySet |-> <<Measure(Example(min_object_size, 0), key)>>]
  /\ size_key = 1
  /\ params = <<>>
  /\ last_loss = <<>>
  /\ loss = <<>>
  /\ step = 0
  /\ loss_hist = <<>>
  /\ applied = 0
  /\ eval_params = <<>>
  /\ model_params \in [KeySet -> FittedParams]
  /\ InitLocals

SpecSolve == InitSolve /\ [][SolverNext]_vars

(* ------------------------------------------------------------------ *)
(* Properties of the solver and the reporter                           *)
(* ------------------------------------------------------------------ *)

\* The constraints the loop of line 171 computes from fitted parameters mp,
\* desired bounds ds (by size key) and probability p.
ConstraintsOf(mp, ds, p) ==
  [j \in 1..Len(SizeKeys) |-> Constraint(mp[SizeKeys[j]], ds[SizeKeys[j]], p)]

\* What line 183 does with a list of constraints.
MinOutcome(cs) ==
  IF IntRaises(PyMin(cs)) THEN <<"raises", IntError(PyMin(cs))>>
  ELSE <<"returns", IntOf(PyMin(cs))>>

\* Line 183 has assigned the target size.
Solved == pc \in {"quantile", "return", "done"}
\* Line 183 has raised.
MinRaised == pc = "raised" /\ Len(ast_constraints) = Len(SizeKeys) /\ ast_target_count = <<>>

Desired == DesiredOf(desired_sizes)

\* Rounding slack of the arithmetic: two hundredths.
Tol == Scale \div 50

\* floor(x) of a number.
FloorOf(x) == x.v \div Scale

\* Every constraint of a list is a number (no NaN, no infinity).
AllDefined(cs) == \A j \in 1..Len(cs) : IsNum(cs[j])

\* C1: at the target size that line 183 returns, the p-quantile of every
\* dimension's fitted model does not exceed the dimension's desired bound,
\* and without power-of-two rounding every returned bound is at most the
\* desired bound.  Stated for the calls in which every constraint is a
\* number, so that no violation rests on an undefined constraint.
C1_QuantilesWithinBounds ==
  /\ (Solved /\ AllDefined(ast_constraints)) =>
       \A key \in KeySet :
         LET q == QuantileAt(model_params[key], OfInt(ast_target_count[1]),
                             success_probability)
         IN IsNum(q) => q.v <= Desired[key] * Scale + Tol
  /\ (pc = "done" /\ ~round_to_powers_of_two /\ AllDefined(ast_constraints)) =>
       \A key \in KeySet : quantiles[key] <= Desired[key]

\* C2: a larger success probability never gives a larger target size.
\* Stated for the pairs of calls in which every constraint is a number.
C2_MonotoneInProbability ==
  (Solved /\ AllDefined(ast_constraints)) =>
    \A t \in Probabilities :
      LET cs == ConstraintsOf(model_params, Desired, Prob(t))
      IN (FLess(success_probability, Prob(t)) /\ AllDefined(cs))
           => MinOutcome(cs)[2] <= ast_target_count[1]

\* C3: raising the desired bound of one dimension never lowers the target
\* size.
C3_MonotoneInBounds ==
  Solved =>
    \A key \in KeySet : \A d \in DesiredValues :
      LET out == MinOutcome(ConstraintsOf(model_params, [Desired EXCEPT ![key] = d],
                                          success_probability))
      IN (d > Desired[key] /\ out[1] = "returns") => out[2] >= ast_target_count[1]

\* C5: the target size is the floor of the minimum constraint, so it is
\* never greater than any dimension's constraint root.  Stated for the calls
\* in which every constraint is a number.
C5_TargetIsFloorOfMinimum ==
  (Solved /\ AllDefined(ast_constraints)) =>
    /\ ast_target_count[1] = FloorOf(PyMin(ast_constraints))
    /\ \A j \in 1..Len(ast_constraints) :
         ast_target_count[1] * Scale <= ast_constraints[j].v

\* C6: the forward p-quantile at a dimension's constraint root is the
\* dimension's desired bound.
C6_QuantileAtRootIsBound ==
  \A j \in 1..Len(ast_constraints) :
    IsNum(ast_constraints[j]) =>
      LET q == QuantileAt(model_params[SizeKeys[j]], ast_constraints[j],
                          success_probability)
      IN IsNum(q) /\ Abs(q.v - Desired[SizeKeys[j]] * Scale) <= Tol

\* The permutations of the five dimensions.
DimensionOrders ==
  {f \in [1..Len(SizeKeys) -> 1..Len(SizeKeys)] :
     \A x, y \in 1..Len(SizeKeys) : f[x] = f[y] => x = y}

\* C10: the outcome of line 183 is the same for every order of the
\* dimensions.
C10_OrderIndependent ==
  (Solved \/ MinRaised) =>
    \A f \in DimensionOrders :
      MinOutcome([j \in 1..Len(SizeKeys) |-> ast_constraints[f[j]]])
        = MinOutcome(ast_constraints)

IsPowerOfTwo(n) == \E e \in 0..30 : n = 2 ^ e

\* The quantile of line 193 of the dimension `key`.
QuantileOf(key) ==
  QuantileAt(model_params[key], OfInt(ast_target_count[1]), success_probability)

BuilderFailed == \E j \in 1..Len(calls) : calls[j].raised # <<>>

\* C7: unless the call fails, example_builder is called exactly `samples`
\* times, all before the fit starts (never more than `samples` times, and
\* `samples` times once the sampling loop is left); every argument t has
\* min_object_size <= t < max_object_size; and index j of object_sizes and
\* of the five measurement arrays holds the argument and the measurements
\* of the j-th call.
C7_OneCallPerSample ==
  /\ Len(calls) <= samples
  /\ \A j \in 1..Len(calls) :
       min_object_size <= calls[j].arg /\ calls[j].arg < max_object_size
  /\ \A j \in 1..Len(calls) :
       calls[j].ret # <<>> =>
         /\ object_sizes[j] = calls[j].arg
         /\ \A key \in KeySet : data[key][j] = Measure(calls[j].ret[1], key)
  /\ (pc # "sample" /\ ~BuilderFailed) =>
       /\ Len(calls) = samples
       /\ \A j \in 1..samples : calls[j].ret # <<>>

\* A call has returned after drawing at least two samples.
C7_SampledAndReturned == pc = "done" /\ samples >= 2 /\ Len(calls) = samples

\* C8: when a call of example_builder raises, calibrate_padding raises that
\* error: it is the last call, nothing is fitted, solved or reported, and
\* nothing is returned.  A call ends with a complete result or with an
\* error, never with both or with a partial result, and after an error it
\* does nothing more.
C8_BuilderErrorPropagates ==
  /\ BuilderFailed =>
       /\ pc = "raised"
       /\ error = calls[Len(calls)].raised
       /\ \A j \in 1..(Len(calls) - 1) : calls[j].raised = <<>>
       /\ params = <<>> /\ loss_hist = <<>> /\ model_params = <<>>
       /\ ast_constraints = <<>> /\ ast_target_count = <<>> /\ quantiles = <<>>
       /\ result = <<>>
  /\ pc = "raised" => (error # <<>> /\ result = <<>> /\ ~ENABLED Next)
  /\ error # <<>> => pc = "raised"
  /\ result # <<>> =>
       /\ pc = "done"
       /\ DOMAIN quantiles = KeySet
       /\ result = <<ast_target_count[1], PaddingConfig(quantiles)>>
  /\ pc = "done" => result # <<>>

\* example_builder has raised on a call after the first.
C8_RaisedOnLaterCall == BuilderFailed /\ Len(calls) >= 2

\* The iterations (1-based, from the second on) whose loss is closer than
\* log_likelihood_epsilon to the loss of the iteration before.
CloseSteps(h) ==
  {n \in 2..Len(h) : Abs(h[n] - h[n - 1]) < log_likelihood_epsilon}

\* C9: the fitting loop of a dimension evaluates the loss at most
\* optimization_max_steps times; it goes on while no iteration after the
\* first has a loss within log_likelihood_epsilon of the one before, applying
\* one update per iteration; it stops at the first such iteration without
\* applying an update, so the stored parameters are those of the last loss
\* evaluation; otherwise it ends after exactly optimization_max_steps
\* updates.
C9_FitLoopStops ==
  /\ pc = "fit" =>
       /\ Len(loss_hist) < optimization_max_steps
       /\ CloseSteps(loss_hist) = {}
       /\ applied = Len(loss_hist)
  /\ pc = "store" =>
       /\ Len(loss_hist) <= optimization_max_steps
       /\ IF CloseSteps(loss_hist) = {}
            THEN /\ Len(loss_hist) = optimization_max_steps
                 /\ applied = optimization_max_steps
            ELSE /\ CloseSteps(loss_hist) = {Len(loss_hist)}
                 /\ applied = Len(loss_hist) - 1
                 /\ params = eval_params

\* A fitting loop has stopped early, before its last permitted iteration.
C9_StoppedEarly ==
  /\ pc = "store"
  /\ CloseSteps(loss_hist) # {}
  /\ Len(loss_hist) < optimization_max_steps

====
